---------------------------- MODULE Spec2Model ----------------------------
(***************************************************************************)
(* rustyline-async: History (src/src/history.rs), LineState                *)
(* (src/src/line.rs), SharedWriter and Readline (src/src/lib.rs).          *)
(*                                                                         *)
(* Text is a sequence of Unicode scalar values, each a one-character       *)
(* string.  Byte length, display width and the grapheme Extend property    *)
(* are kept per scalar, so byte offsets, grapheme indices and display      *)
(* columns are three different numbers, as they are in the code.           *)
(* Option<T> is a sequence of length at most one: None is <<>>.            *)
(***************************************************************************)
EXTENDS Integers, Sequences, FiniteSets, TLC

VARIABLES
    \* History (history.rs:3-8)
    entries, max_size, current_position,
    \* LineState (line.rs:16-37)
    line, line_cursor_grapheme, current_column, cluster_buffer,
    prompt, prompt_len,
    should_print_line_on_enter, should_print_line_on_control_c,
    last_line_length, last_line_completed, term_size,
    \* what the last handler queued on the terminal, and whether it panicked
    term, panicked,
    \* SharedWriter handles and the channel (lib.rs:416-420, 506)
    buffer, alive, chan, receiver_alive,
    \* Readline session (lib.rs:492-561); arm is the last thing the session did
    pc, raw_enabled, raw_acquired, raw_released, flushed, returned, arm,
    \* whether the running readline() call follows one that returned Eof or
    \* Interrupted
    resumed,
    \* observation of the last call: its name, arguments and result
    last, ret, run,
    \* observation of the search_next and search_previous calls made since the
    \* last other History call: their net offset, the result seen at each
    \* offset, and whether every one of them moved the position
    nav,
    \* observation of the writer traffic: per handle, the bytes its calls accepted
    \* since its last chunk and whether one of them was refused; chunks sent and
    \* received; the last writer call
    handed, refused, nsent, nrecv, wlog

histVars == <<entries, max_size, current_position>>
lineVars == <<line, line_cursor_grapheme, current_column, cluster_buffer,
              prompt, prompt_len, should_print_line_on_enter,
              should_print_line_on_control_c, last_line_length,
              last_line_completed, term_size, term, panicked>>
writerVars == <<buffer, alive, chan, receiver_alive>>
sessVars == <<pc, raw_enabled, raw_acquired, raw_released, flushed, returned, arm,
              resumed>>
obsVars == <<last, ret, run>>
wobsVars == <<handed, refused, nsent, nrecv, wlog>>
navVars == <<nav>>
vars == <<histVars, lineVars, writerVars, sessVars, obsVars, wobsVars, navVars>>

-----------------------------------------------------------------------------
(* Bounds of the model *)

\* longest edit buffer, in scalar values
MaxLen == 3
\* longest pending-cluster buffer, in scalar values
MaxCluster == 2
\* most history entries stored before add_entry is no longer offered
MaxHist == 3
\* largest argument given to set_max_size
MaxSizeArg == 2
\* longest list given to set_entries
MaxList == 2
\* largest net offset of a navigation, in either direction
MaxNav == 3
\* most consecutive search_next calls counted
MaxRun == 4

\* History::default's capacity
DefaultMaxSize == 1000

None == <<>>
Some(x) == <<x>>

Min(a, b) == IF a < b THEN a ELSE b
Max(a, b) == IF a < b THEN b ELSE a

-----------------------------------------------------------------------------
(* History: history.rs *)

\* the lines offered to add_entry and set_entries
HistLines == {<<>>, <<"a">>, <<"b">>, <<"c">>}

RECURSIVE SeqsUpTo(_, _)
SeqsUpTo(S, n) ==
    IF n = 0 THEN {<<>>}
    ELSE LET shorter == SeqsUpTo(S, n - 1)
         IN shorter \cup {Append(s, x) : s \in {t \in shorter : Len(t) = n - 1}, x \in S}

Back(es) == IF es = <<>> THEN None ELSE Some(es[Len(es)])

\* an add_entry that pushes a repeated line too: not what the code does
AddEntryWithoutSkip(es, cap, l) ==
    IF l = <<>> THEN es
    ELSE IF Len(es) + 1 > cap THEN Tail(Append(es, l)) ELSE Append(es, l)

\* add_entry on the entries alone: skip an empty or repeated line, push_back,
\* pop_front once when over capacity
AddEntryTo(es, cap, l) ==
    IF Back(es) = Some(l) \/ l = <<>> THEN es
    ELSE IF Len(es) + 1 > cap THEN Tail(Append(es, l)) ELSE Append(es, l)

\* a truncation that keeps the oldest entries: not what the code does
DropBack(es, cap) == SubSeq(es, 1, Min(Len(es), cap))

\* the pop_front loop of set_max_size (41-44)
RECURSIVE DropFront(_, _)
DropFront(es, cap) == IF Len(es) > cap THEN DropFront(Tail(es), cap) ELSE es

\* a set_entries that stores the list as it is given: not what the code does
AppendAll(es, cap, ls) == es \o ls

\* the add_entry loop of set_entries (60-62)
RECURSIVE AddAll(_, _, _)
AddAll(es, cap, ls) ==
    IF ls = <<>> THEN es ELSE AddAll(AddEntryTo(es, cap, Head(ls)), cap, Tail(ls))

\* entries add_entry pops from the front
Evicted(es, cap, l) ==
    IF AddEntryTo(es, cap, l) = es \/ Len(es) + 1 <= cap THEN 0 ELSE 1

Observe(op, l, n, r) ==
    /\ last' = [op |-> op, line |-> l, n |-> n]
    /\ ret' = r

\* an add_entry that leaves the navigation position where it was: not what
\* the code does
PositionKeptOnAdd(p) == p
\* the navigation position add_entry leaves (23)
PositionAfterAdd(p) == None

\* a reset that leaves the navigation position where it was: not what the
\* code does
PositionLeftAsIs(p) == p
\* the navigation position reset_position leaves (67-70)
PositionReset(p) == None

add_entry(l) ==
    /\ Len(AddEntryTo(entries, max_size, l)) <= MaxHist
    /\ current_position' = PositionAfterAdd(current_position)
    /\ entries' = AddEntryTo(entries, max_size, l)
    /\ UNCHANGED max_size
    /\ Observe("add_entry", l, Evicted(entries, max_size, l), None)
    /\ run' = 0

set_max_size(n) ==
    /\ max_size' = n
    /\ entries' = DropFront(entries, n)
    /\ current_position' = PositionReset(current_position)
    /\ Observe("set_max_size", <<>>, n, None)
    /\ run' = 0

set_entries(ls) ==
    /\ entries' = AddAll(<<>>, max_size, ls)
    /\ current_position' = PositionReset(current_position)
    /\ UNCHANGED max_size
    /\ Observe("set_entries", ls, Len(ls), None)
    /\ run' = 0

\* get_entries (51-53): a view of the stored entries, front first
get_entries ==
    /\ UNCHANGED <<entries, max_size, current_position>>
    /\ Observe("get_entries", entries, Len(entries), None)
    /\ run' = 0

reset_position ==
    /\ current_position' = PositionReset(current_position)
    /\ UNCHANGED <<entries, max_size>>
    /\ Observe("reset_position", <<>>, 0, None)
    /\ run' = 0

\* a search_next that wraps from the oldest entry to the newest: not what the
\* code does
SearchNextWraps(es, p) ==
    IF p # None
    THEN LET i == IF p[1] > 0 THEN p[1] - 1 ELSE Len(es) - 1
         IN <<Some(i), Some(es[i + 1])>>
    ELSE IF es # <<>> THEN <<Some(Len(es) - 1), Some(es[Len(es)])>>
    ELSE <<None, None>>

\* search_next as a function of the history: <<new position, result>>
SearchNext(es, p) ==
    IF p # None
    THEN LET i == IF p[1] > 0 THEN p[1] - 1 ELSE p[1]
         IN <<Some(i), Some(es[i + 1])>>
    ELSE IF es # <<>> THEN <<Some(Len(es) - 1), Some(es[Len(es)])>>
    ELSE <<None, None>>

\* a search_previous that stays on the newest entry when it returns the empty
\* string: not what the code does
SearchPreviousKeepsPosition(es, p) ==
    IF p # None
    THEN IF p[1] = Len(es) - 1 THEN <<p, Some(<<>>)>>
         ELSE <<Some(p[1] + 1), Some(es[p[1] + 2])>>
    ELSE <<None, None>>

\* a search_previous that returns the entry it moves away from: not what the
\* code does
SearchPreviousReturnsOld(es, p) ==
    IF p # None
    THEN IF p[1] = Len(es) - 1 THEN <<None, Some(<<>>)>>
         ELSE <<Some(p[1] + 1), Some(es[p[1] + 1])>>
    ELSE <<None, None>>

\* search_previous as a function of the history: <<new position, result>>
SearchPrevious(es, p) ==
    IF p # None
    THEN IF p[1] = Len(es) - 1 THEN <<None, Some(<<>>)>>
         ELSE <<Some(p[1] + 1), Some(es[p[1] + 2])>>
    ELSE <<None, None>>

\* the line of the add_entry call that the search_next calls in progress
\* follow directly; empty when they follow another call
AddedBefore == IF last.op \in {"add_entry", "search_next"} THEN last.line ELSE <<>>

\* one more than the capacity set_max_size was given, when search_next
\* follows it directly; 0 when it follows another call
ResizedBefore == IF last.op = "set_max_size" THEN last.n + 1 ELSE 0

search_next ==
    /\ run < MaxRun
    /\ current_position' = SearchNext(entries, current_position)[1]
    /\ UNCHANGED <<entries, max_size>>
    /\ Observe("search_next", AddedBefore, ResizedBefore, SearchNext(entries, current_position)[2])
    /\ run' = IF current_position = None THEN 1
              ELSE IF run > 0 THEN run + 1 ELSE 0

search_previous ==
    /\ current_position' = SearchPrevious(entries, current_position)[1]
    /\ UNCHANGED <<entries, max_size>>
    /\ Observe("search_previous", <<>>, 0, SearchPrevious(entries, current_position)[2])
    /\ run' = 0

-----------------------------------------------------------------------------
(* Text: scalar values, bytes, display width, grapheme clusters *)

NL == "\n"

\* "a": ASCII letter; " ": space; "W": a wide CJK scalar (3 bytes, 2 columns);
\* "m": a combining mark (2 bytes, 0 columns, grapheme Extend)
ByteLen(c) == CASE c = "W" -> 3 [] c = "m" -> 2 [] OTHER -> 1
CharWidth(c) == CASE c = "W" -> 2 [] c = "m" -> 0 [] c = NL -> 0 [] OTHER -> 1
IsExtend(c) == c = "m"

Take(s, n) == SubSeq(s, 1, n)
Drop(s, n) == SubSeq(s, n + 1, Len(s))

RECURSIVE ansi_width(_)
ansi_width(s) == IF s = <<>> THEN 0 ELSE CharWidth(Head(s)) + ansi_width(Tail(s))

\* str::len of the first off scalars: the byte offset of scalar offset off
RECURSIVE BytePos(_, _)
BytePos(s, off) == IF off = 0 THEN 0 ELSE ByteLen(s[off]) + BytePos(s, off - 1)

\* graphemes(true): a cluster starts at the first scalar and at every scalar
\* that is not Extend
GStarts(s) == {i \in 1..Len(s) : i = 1 \/ ~IsExtend(s[i])}
GCount(s) == Cardinality(GStarts(s))
\* scalar offset at which cluster k (from 0) starts; the end of s from the count on
GOffset(s, k) ==
    IF k >= GCount(s) THEN Len(s)
    ELSE (CHOOSE i \in GStarts(s) : Cardinality({j \in GStarts(s) : j < i}) = k) - 1
GStr(s, k) == SubSeq(s, GOffset(s, k) + 1, GOffset(s, k + 1))

\* indices of the clusters, Option-wrapped
current_grapheme(s, cur) ==
    IF Min(cur, GCount(s)) = 0 THEN None ELSE Some(Min(cur, GCount(s)) - 1)

next_grapheme(s, cur) ==
    IF cur = GCount(s) \/ GCount(s) = 0 THEN None
    ELSE Some(Min(cur + 1, GCount(s)) - 1)

\* scalar offset just after the cluster before the cursor (0 without one)
CursorOffset(s, cur) ==
    IF current_grapheme(s, cur) = None THEN 0
    ELSE GOffset(s, current_grapheme(s, cur)[1] + 1)

\* move_cursor: the new grapheme index, then the column recomputed from it
MoveCursor(s, cur, change) ==
    IF change > 0 THEN Min(cur + change, GCount(s)) ELSE Max(cur + change, 0)

ColumnAt(s, cur, plen) == plen + ansi_width(Take(s, CursorOffset(s, cur)))

-----------------------------------------------------------------------------
(* Terminal commands queued by LineState *)

Cmd(c, n, s) == [cmd |-> c, n |-> n, s |-> s]
MoveToColumn(n) == <<Cmd("MoveToColumn", n, <<>>)>>
MoveUp(n) == <<Cmd("MoveUp", n, <<>>)>>
MoveDown(n) == <<Cmd("MoveDown", n, <<>>)>>
MoveRight(n) == <<Cmd("MoveRight", n, <<>>)>>
MoveTo00 == <<Cmd("MoveTo", 0, <<>>)>>
ClearFromCursorDown == <<Cmd("ClearFromCursorDown", 0, <<>>)>>
ClearAll == <<Cmd("ClearAll", 0, <<>>)>>
Write(s) == <<Cmd("Write", 0, s)>>
Flush == <<Cmd("Flush", 0, <<>>)>>

Width == term_size[1]

line_height(pos) == pos \div Width

move_to_beginning(from) ==
    LET move_up == line_height(Max(from - 1, 0))
    IN MoveToColumn(0) \o (IF move_up # 0 THEN MoveUp(move_up) ELSE <<>>)

move_from_beginning(to) ==
    LET lh == line_height(Max(to - 1, 0))
    IN (IF lh # 0 THEN MoveDown(lh) ELSE <<>>) \o MoveRight(to % Width)

clear(col) == move_to_beginning(col) \o ClearFromCursorDown

render(p, l, col) ==
    Write(p \o l)
    \o move_to_beginning(prompt_len + ansi_width(l))
    \o move_from_beginning(col)

clear_and_render(p, l, col) == clear(col) \o render(p, l, col)

\* split_inclusive(|b| *b == b'\n')
RECURSIVE SplitInclusive(_, _)
SplitInclusive(data, cur) ==
    IF data = <<>> THEN (IF cur = <<>> THEN <<>> ELSE <<cur>>)
    ELSE IF Head(data) = NL
         THEN <<Append(cur, NL)>> \o SplitInclusive(Tail(data), <<>>)
         ELSE SplitInclusive(Tail(data), Append(cur, Head(data)))

\* pieces written one after the other with no carriage return: not what the
\* code does
RECURSIVE WritePiecesRaw(_)
WritePiecesRaw(ps) ==
    IF ps = <<>> THEN <<>> ELSE Write(Head(ps)) \o WritePiecesRaw(Tail(ps))

\* the loop over the pieces (146-149)
RECURSIVE WritePieces(_)
WritePieces(ps) ==
    IF ps = <<>> THEN <<>>
    ELSE Write(Head(ps)) \o MoveToColumn(0) \o WritePieces(Tail(ps))

EndsWithNL(data) == data # <<>> /\ data[Len(data)] = NL

\* a print_data that writes the chunk before it clears the prompt render: not
\* what the code does
PrintDataBeforeClear(data) ==
    LET done == EndsWithNL(data)
        sum == last_line_length + ansi_width(data)
        wraps == ~done /\ sum >= Width
    IN [out |-> WritePieces(SplitInclusive(data, <<>>))
                \o clear(current_column)
                \o render(prompt, line, current_column),
        completed |-> done,
        length |-> IF done THEN 0 ELSE IF wraps THEN sum % Width ELSE sum]

\* print_data with the line state as it stands: what it queues, and the
\* open-line bookkeeping it leaves
PrintData(data) ==
    LET done == EndsWithNL(data)
        sum == last_line_length + ansi_width(data)
        wraps == ~done /\ sum >= Width
    IN [out |-> clear(current_column)
                \o (IF ~last_line_completed
                    THEN MoveUp(1) \o MoveToColumn(0) \o MoveRight(last_line_length)
                    ELSE <<>>)
                \o WritePieces(SplitInclusive(data, <<>>))
                \o (IF done THEN <<>>
                    ELSE (IF wraps THEN Write(<<NL>>) ELSE <<>>) \o Write(<<NL>>))
                \o MoveToColumn(0)
                \o render(prompt, line, current_column),
        completed |-> done,
        length |-> IF done THEN 0 ELSE IF wraps THEN sum % Width ELSE sum]

-----------------------------------------------------------------------------
(* LineState::handle_event: line.rs:190-436 *)

\* a Line event that holds the buffer up to the cursor only: not what the code
\* does
LineBeforeCursor(text) ==
    [ev |-> "Line", text |-> Take(text, CursorOffset(text, line_cursor_grapheme))]
Line(text) == [ev |-> "Line", text |-> text]
\* Ctrl-D reported as the IO failure
EofAsFailure == [ev |-> "IO", text |-> <<>>]

Eof == [ev |-> "Eof", text |-> <<>>]
Interrupted == [ev |-> "Interrupted", text |-> <<>>]

SetMax(S) == CHOOSE x \in S : \A y \in S : y <= x
SetMin(S) == CHOOSE x \in S : \A y \in S : x <= y

IsSpace(s, k) == GStr(s, k) = <<" ">>

\* .rev().skip(count - cursor).skip_while(is " ").find(is " "): the index of the
\* space cluster that ends the word before the cursor
WordLeftSpace(s, cur) ==
    LET words == {i \in 0..(Min(cur, GCount(s)) - 1) : ~IsSpace(s, i)}
    IN IF words = {} THEN None
       ELSE LET spaces == {i \in 0..(SetMax(words) - 1) : IsSpace(s, i)}
            IN IF spaces = {} THEN None ELSE Some(SetMax(spaces))

\* .skip(cursor).skip_while(is " ").find(is " ")
WordRightSpace(s, cur) ==
    LET words == {i \in cur..(GCount(s) - 1) : ~IsSpace(s, i)}
    IN IF words = {} THEN None
       ELSE LET spaces == {i \in (SetMin(words) + 1)..(GCount(s) - 1) : IsSpace(s, i)}
            IN IF spaces = {} THEN None ELSE Some(SetMin(spaces))

\* byte offset of cluster k
GBytePos(s, k) == BytePos(s, GOffset(s, k))

RemoveRange(s, from, to) == Take(s, from) \o Drop(s, to)
InsertAt(s, off, c) == Take(s, off) \o <<c>> \o Drop(s, off)

SetLine(op, arg, l, cur, col, cb, out, r) ==
    /\ line' = l
    /\ line_cursor_grapheme' = cur
    /\ current_column' = col
    /\ cluster_buffer' = cb
    /\ term' = out
    /\ ret' = r
    /\ last' = [op |-> op, line |-> arg, n |-> 0]
    /\ run' = 0

KeepConfig ==
    UNCHANGED <<prompt, prompt_len, should_print_line_on_enter,
                should_print_line_on_control_c, term_size, panicked,
                entries, max_size>>
KeepOpenLine == UNCHANGED <<last_line_length, last_line_completed>>
KeepPosition == UNCHANGED current_position

\* a Ctrl-D that empties the edit buffer as Ctrl-C does: not what the code does
CtrlDClearsLine ==
    /\ SetLine("CtrlD", <<>>, <<>>, MoveCursor(<<>>, line_cursor_grapheme, -10000),
               ColumnAt(<<>>, MoveCursor(<<>>, line_cursor_grapheme, -10000), prompt_len),
               cluster_buffer, Write(<<NL>>) \o clear(current_column), Some(Eof))
    /\ KeepConfig /\ KeepOpenLine /\ KeepPosition

\* Ctrl-D (204-208)
CtrlD ==
    /\ SetLine("CtrlD", <<>>, line, line_cursor_grapheme, current_column,
               cluster_buffer, Write(<<NL>>) \o clear(current_column), Some(Eof))
    /\ KeepConfig /\ KeepOpenLine /\ KeepPosition

\* Ctrl-C (210-219)
CtrlC ==
    LET pd == PrintData(prompt \o line)
        echo == should_print_line_on_control_c
        col == ColumnAt(<<>>, MoveCursor(<<>>, line_cursor_grapheme, -10000), prompt_len)
    IN /\ SetLine("CtrlC", <<>>, <<>>, MoveCursor(<<>>, line_cursor_grapheme, -10000),
                  col, cluster_buffer,
                  (IF echo THEN pd.out ELSE <<>>) \o clear_and_render(prompt, <<>>, col),
                  Some(Interrupted))
       /\ last_line_completed' = IF echo THEN pd.completed ELSE last_line_completed
       /\ last_line_length' = IF echo THEN pd.length ELSE last_line_length
       /\ KeepConfig /\ KeepPosition

\* Ctrl-L (221-224)
CtrlL ==
    /\ SetLine("CtrlL", <<>>, line, line_cursor_grapheme, current_column, cluster_buffer,
               ClearAll \o MoveTo00 \o clear_and_render(prompt, line, current_column),
               None)
    /\ KeepConfig /\ KeepOpenLine /\ KeepPosition

Ignored(op) ==
    /\ SetLine(op, <<>>, line, line_cursor_grapheme, current_column, cluster_buffer,
               <<>>, None)
    /\ KeepConfig /\ KeepOpenLine /\ KeepPosition

\* Ctrl-U (226-233)
CtrlU ==
    /\ IF current_grapheme(line, line_cursor_grapheme) # None
       THEN LET l == Drop(line, CursorOffset(line, line_cursor_grapheme))
                cur == MoveCursor(l, line_cursor_grapheme, -100000)
                col == ColumnAt(l, cur, prompt_len)
            IN SetLine("CtrlU", <<>>, l, cur, col, cluster_buffer,
                       clear_and_render(prompt, l, col), None)
       ELSE SetLine("CtrlU", <<>>, line, line_cursor_grapheme, current_column,
                    cluster_buffer, <<>>, None)
    /\ KeepConfig /\ KeepOpenLine /\ KeepPosition

\* count - self.line_cursor_grapheme on usize: an overflow check panics, and
\* without it the difference wraps and .skip() leaves nothing
Underflows == line_cursor_grapheme > GCount(line)

Panic(op, out) ==
    /\ panicked' = TRUE
    /\ term' = out
    /\ ret' = None
    /\ last' = [op |-> op, line |-> <<>>, n |-> 0]
    /\ run' = 0
    /\ UNCHANGED <<line, line_cursor_grapheme, current_column, cluster_buffer,
                   prompt, prompt_len, should_print_line_on_enter,
                   should_print_line_on_control_c, term_size, entries, max_size>>
    /\ KeepOpenLine /\ KeepPosition

\* Ctrl-W (235-259): start and end are byte offsets, change mixes the byte
\* offset with the grapheme index, and the cursor moves before the drain
CtrlWEffect(found) ==
    LET startG == IF found = None THEN 0 ELSE found[1] + 1
        startByte == IF found = None THEN 0 ELSE GBytePos(line, found[1]) + 1
        startOff == GOffset(line, startG)
        endOff == GOffset(line, line_cursor_grapheme)
        change == startByte - line_cursor_grapheme
        cur == MoveCursor(line, line_cursor_grapheme, change)
        col == ColumnAt(line, cur, prompt_len)
        l == RemoveRange(line, startOff, endOff)
    IN /\ SetLine("CtrlW", <<>>, l, cur, col, cluster_buffer,
                  clear_and_render(prompt, l, col), None)
       /\ KeepConfig /\ KeepOpenLine /\ KeepPosition

CtrlW ==
    \/ /\ ~Underflows
       /\ CtrlWEffect(WordLeftSpace(line, line_cursor_grapheme))
    \/ /\ Underflows
       /\ CtrlWEffect(None)
    \/ /\ Underflows
       /\ Panic("CtrlW", <<>>)

\* Ctrl-Left (275-293)
CtrlLeftEffect(found) ==
    LET change == IF found = None THEN -100000
                  ELSE GBytePos(line, found[1]) - line_cursor_grapheme + 1
        cur == MoveCursor(line, line_cursor_grapheme, change)
        col == ColumnAt(line, cur, prompt_len)
    IN /\ SetLine("CtrlLeft", <<>>, line, cur, col, cluster_buffer,
                  move_to_beginning(current_column) \o move_from_beginning(col), None)
       /\ KeepConfig /\ KeepOpenLine /\ KeepPosition

CtrlLeft ==
    \/ /\ ~Underflows
       /\ CtrlLeftEffect(WordLeftSpace(line, line_cursor_grapheme))
    \/ /\ Underflows
       /\ CtrlLeftEffect(None)
    \/ /\ Underflows
       /\ Panic("CtrlLeft", move_to_beginning(current_column))

\* Ctrl-Right (295-310)
CtrlRight ==
    LET found == WordRightSpace(line, line_cursor_grapheme)
        change == IF found = None THEN 10000
                  ELSE GBytePos(line, found[1]) - line_cursor_grapheme
        cur == MoveCursor(line, line_cursor_grapheme, change)
        col == ColumnAt(line, cur, prompt_len)
    IN /\ SetLine("CtrlRight", <<>>, line, cur, col, cluster_buffer,
                  move_to_beginning(current_column) \o move_from_beginning(col), None)
       /\ KeepConfig /\ KeepOpenLine /\ KeepPosition

\* Enter (323-339)
KeyEnter ==
    LET pd == PrintData(prompt \o line \o <<NL>>)
        echo == should_print_line_on_enter
        cur == MoveCursor(<<>>, line_cursor_grapheme, -100000)
        col == ColumnAt(<<>>, cur, prompt_len)
    IN /\ line' = <<>>
       /\ line_cursor_grapheme' = cur
       /\ current_column' = col
       /\ term' = (IF echo THEN pd.out ELSE <<>>) \o clear_and_render(prompt, <<>>, col)
       /\ ret' = Some(Line(line))
       /\ last' = [op |-> "Enter", line |-> line, n |-> line_cursor_grapheme]
       /\ run' = 0
       /\ UNCHANGED cluster_buffer
       /\ last_line_completed' = IF echo THEN pd.completed ELSE last_line_completed
       /\ last_line_length' = IF echo THEN pd.length ELSE last_line_length
       /\ current_position' = None
       /\ KeepConfig

\* Backspace (341-351)
Backspace ==
    /\ IF current_grapheme(line, line_cursor_grapheme) # None
       THEN LET g == current_grapheme(line, line_cursor_grapheme)[1]
                l == RemoveRange(line, GOffset(line, g), GOffset(line, g + 1))
                cur == MoveCursor(l, line_cursor_grapheme, -1)
                col == ColumnAt(l, cur, prompt_len)
            IN SetLine("Backspace", <<>>, l, cur, col, cluster_buffer,
                       clear(current_column) \o render(prompt, l, col), None)
       ELSE SetLine("Backspace", <<>>, line, line_cursor_grapheme, current_column,
                    cluster_buffer, <<>>, None)
    /\ KeepConfig /\ KeepOpenLine /\ KeepPosition

\* Delete (352-361)
Delete ==
    /\ IF next_grapheme(line, line_cursor_grapheme) # None
       THEN LET g == next_grapheme(line, line_cursor_grapheme)[1]
                l == RemoveRange(line, GOffset(line, g), GOffset(line, g + 1))
            IN SetLine("Delete", <<>>, l, line_cursor_grapheme, current_column,
                       cluster_buffer,
                       clear(current_column) \o render(prompt, l, current_column), None)
       ELSE SetLine("Delete", <<>>, line, line_cursor_grapheme, current_column,
                    cluster_buffer, <<>>, None)
    /\ KeepConfig /\ KeepOpenLine /\ KeepPosition

\* Left, Right, Home, End (362-381)
Motion(op, change) ==
    LET cur == MoveCursor(line, line_cursor_grapheme, change)
        col == ColumnAt(line, cur, prompt_len)
    IN /\ SetLine(op, <<>>, line, cur, col, cluster_buffer,
                  move_to_beginning(current_column) \o move_from_beginning(col), None)
       /\ KeepConfig /\ KeepOpenLine /\ KeepPosition

KeyLeft == Motion("Left", -1)
KeyRight == Motion("Right", 1)
Home == Motion("Home", -100000)
End == Motion("End", 100000)

\* an Up or Down that leaves the cursor index where it was: not what the code
\* does
RecallKeepsCursor(op, found) ==
    /\ current_position' = found[1]
    /\ IF found[2] # None
       THEN LET l == found[2][1]
                cur == Min(line_cursor_grapheme, GCount(l))
                col == ColumnAt(l, cur, prompt_len)
            IN SetLine(op, <<>>, l, cur, col, cluster_buffer,
                       clear(current_column) \o render(prompt, l, col), None)
       ELSE SetLine(op, <<>>, line, line_cursor_grapheme, current_column,
                    cluster_buffer, <<>>, None)
    /\ KeepConfig /\ KeepOpenLine

\* Up, Down (382-401)
Recall(op, found) ==
    /\ current_position' = found[1]
    /\ IF found[2] # None
       THEN LET l == found[2][1]
                cur == MoveCursor(l, line_cursor_grapheme, 100000)
                col == ColumnAt(l, cur, prompt_len)
            IN SetLine(op, <<>>, l, cur, col, cluster_buffer,
                       clear(current_column) \o render(prompt, l, col), None)
       ELSE SetLine(op, <<>>, line, line_cursor_grapheme, current_column,
                    cluster_buffer, <<>>, None)
    /\ KeepConfig /\ KeepOpenLine

Up == Recall("Up", SearchNext(entries, current_position))
Down == Recall("Down", SearchPrevious(entries, current_position))

\* the pending-cluster buffer after c was pushed and, when c started a new
\* cluster, the first of its clusters was removed (405-407, 414-424)
ClusterAfter(cb, c) ==
    LET pushed == Append(cb, c)
    IN IF GCount(cb) # GCount(pushed) /\ GCount(cb) > 0
       THEN Drop(pushed, GOffset(pushed, 1))
       ELSE pushed

\* Char(c) (403-426)
KeyChar(c) ==
    LET l == InsertAt(line, CursorOffset(line, line_cursor_grapheme), c)
        moves == GCount(cluster_buffer) # GCount(Append(cluster_buffer, c))
        cur == IF moves THEN MoveCursor(l, line_cursor_grapheme, 1)
               ELSE line_cursor_grapheme
        col == IF moves THEN ColumnAt(l, cur, prompt_len) ELSE current_column
    IN /\ Len(line) < MaxLen
       /\ Len(ClusterAfter(cluster_buffer, c)) <= MaxCluster
       /\ SetLine("Char", <<c>>, l, cur, col, ClusterAfter(cluster_buffer, c),
                  clear(current_column) \o render(prompt, l, col), None)
       /\ KeepConfig /\ KeepOpenLine /\ KeepPosition

\* Resize (429-432): the width is stored as given; line_height divides by it
Resize(x, y) ==
    /\ term_size' = <<x, y>>
    /\ panicked' = (x = 0)
    /\ term' = IF x = 0 THEN <<>>
               ELSE LET lh(pos) == pos \div x
                        mtb(from) == MoveToColumn(0)
                                     \o (IF lh(Max(from - 1, 0)) # 0
                                         THEN MoveUp(lh(Max(from - 1, 0))) ELSE <<>>)
                        mfb(to) == (IF lh(Max(to - 1, 0)) # 0
                                    THEN MoveDown(lh(Max(to - 1, 0))) ELSE <<>>)
                                   \o MoveRight(to % x)
                    IN mtb(current_column) \o ClearFromCursorDown
                       \o Write(prompt \o line)
                       \o mtb(prompt_len + ansi_width(line))
                       \o mfb(current_column)
    /\ ret' = None
    /\ last' = [op |-> "Resize", line |-> <<>>, n |-> x]
    /\ run' = 0
    /\ UNCHANGED <<line, line_cursor_grapheme, current_column, cluster_buffer,
                   prompt, prompt_len, should_print_line_on_enter,
                   should_print_line_on_control_c, entries, max_size>>
    /\ KeepOpenLine /\ KeepPosition

\* update_prompt (176-189): prompt_len is not recomputed
update_prompt(p) ==
    LET cur == MoveCursor(line, line_cursor_grapheme, 0)
        col == ColumnAt(line, cur, prompt_len)
    IN /\ prompt' = p
       /\ line_cursor_grapheme' = cur
       /\ current_column' = col
       /\ term' = clear(current_column) \o render(p, line, col) \o Flush
       /\ ret' = None
       /\ last' = [op |-> "update_prompt", line |-> p, n |-> 0]
       /\ run' = 0
       /\ UNCHANGED <<line, cluster_buffer, prompt_len, should_print_line_on_enter,
                      should_print_line_on_control_c, term_size, panicked,
                      entries, max_size>>
       /\ KeepOpenLine /\ KeepPosition

\* print_data (135-171)
print_data(data) ==
    /\ term' = PrintData(data).out
    /\ last_line_completed' = PrintData(data).completed
    /\ last_line_length' = PrintData(data).length
    /\ ret' = None
    /\ last' = [op |-> "print_data", line |-> data, n |-> 0]
    /\ run' = 0
    /\ UNCHANGED <<line, line_cursor_grapheme, current_column, cluster_buffer,
                   prompt, prompt_len, should_print_line_on_enter,
                   should_print_line_on_control_c, term_size, panicked>>
    /\ UNCHANGED histVars

-----------------------------------------------------------------------------
(* The editing session: LineState with its History, driven by events *)

TypedChars == {" ", "W"}
InitPrompts == {<<">", " ">>}
Prompts == {<<">">>, <<">", " ">>}
InitSizes == {<<4, 24>>}
ResizeSizes == {<<0, 24>>, <<4, 24>>}
PrintedData == {<<"x">>, <<"x", NL>>, <<"x", NL, "x">>}
RecalledLines == {<<"a", "m">>}
\* most history entries in the editing session
MaxRecall == 1

\* the fields of the other components, at rest
WriterIdle ==
    /\ buffer = <<>> /\ alive = <<>> /\ chan = <<>> /\ receiver_alive = FALSE
    /\ handed = <<>> /\ refused = <<>> /\ nsent = <<>> /\ nrecv = <<>>
    /\ wlog = [op |-> "none", h |-> 0, buf |-> <<>>, res |-> "Ok", seq |-> 0]
SessionIdle ==
    /\ pc = "idle" /\ raw_enabled = FALSE /\ raw_acquired = 0 /\ raw_released = 0
    /\ flushed = TRUE /\ returned = None /\ arm = "new" /\ resumed = FALSE
HistoryNew ==
    /\ entries = <<>> /\ max_size = DefaultMaxSize /\ current_position = None
ObserveNothing ==
    /\ last = [op |-> "new", line |-> <<>>, n |-> 0] /\ ret = None /\ run = 0
    /\ nav = [off |-> 0, seen |-> {}, moved |-> TRUE]

\* LineState::new (40-53) with History::default (9-17)
LineNew(p, size) ==
    /\ prompt = p
    /\ prompt_len = ansi_width(p)
    /\ last_line_completed = TRUE
    /\ term_size = <<Max(size[1], 1), size[2]>>
    /\ current_column = ansi_width(p)
    /\ line = <<>> /\ line_cursor_grapheme = 0 /\ cluster_buffer = <<>>
    /\ last_line_length = 0
    /\ term = <<>> /\ panicked = FALSE
    /\ HistoryNew

\* the two flags are public fields: constructed TRUE (48-49), and the caller
\* may have cleared them before the first event
InitLine ==
    /\ \E p \in InitPrompts, size \in InitSizes : LineNew(p, size)
    /\ \E e \in BOOLEAN :
          should_print_line_on_enter = e /\ should_print_line_on_control_c = e
    /\ WriterIdle /\ SessionIdle /\ ObserveNothing

KeepLine ==
    UNCHANGED <<line, line_cursor_grapheme, current_column, cluster_buffer,
                prompt, prompt_len, should_print_line_on_enter,
                should_print_line_on_control_c, last_line_length,
                last_line_completed, term_size, panicked>>

\* Readline::add_history_entry: the caller's line goes to History::add_entry
add_history_entry(l) ==
    /\ Len(entries) < MaxRecall
    /\ add_entry(l)
    /\ term' = <<>>
    /\ KeepLine

handle_event(chars, sizes) ==
    \/ CtrlD \/ CtrlC \/ CtrlL \/ CtrlU \/ CtrlW \/ CtrlLeft \/ CtrlRight
    \/ KeyEnter \/ Backspace \/ Delete \/ KeyLeft \/ KeyRight \/ Home \/ End
    \/ Up \/ Down
    \/ \E c \in chars : KeyChar(c)
    \/ \E size \in sizes : Resize(size[1], size[2])
    \/ Ignored("Other")

\* a call on the LineState outside a Readline
LineStep(A) ==
    /\ ~panicked
    /\ A
    /\ UNCHANGED <<writerVars, sessVars, wobsVars, navVars>>

NextLine ==
    \/ LineStep(handle_event(TypedChars, ResizeSizes))
    \/ \E p \in Prompts : LineStep(update_prompt(p))
    \/ \E l \in RecalledLines : LineStep(add_history_entry(l))

SpecLine == InitLine /\ [][NextLine]_vars

-----------------------------------------------------------------------------
(* Background output over a line being edited *)

PrintChars == {"a", "W"}
PrintSizes == {<<0, 24>>, <<3, 24>>}

NextPrint ==
    \/ \E data \in PrintedData : LineStep(print_data(data))
    \/ \E c \in PrintChars : LineStep(KeyChar(c))
    \/ LineStep(KeyLeft)
    \/ LineStep(KeyEnter)
    \/ LineStep(CtrlC)
    \/ LineStep(CtrlD)
    \/ \E size \in PrintSizes : LineStep(Resize(size[1], size[2]))

SpecPrint == InitLine /\ [][NextPrint]_vars

-----------------------------------------------------------------------------
(* History on its own *)

InitHistory ==
    /\ \E p \in InitPrompts : LineNew(p, <<4, 24>>)
    /\ should_print_line_on_enter = TRUE /\ should_print_line_on_control_c = TRUE
    /\ WriterIdle /\ SessionIdle /\ ObserveNothing

NavFresh == [off |-> 0, seen |-> {}, moved |-> TRUE]

\* what the call just made adds to the observation of the navigation:
\* search_next counts +1 and search_previous -1
Navigate ==
    nav' = IF last'.op \in {"search_next", "search_previous"}
           THEN LET off == nav.off + (IF last'.op = "search_next" THEN 1 ELSE -1)
                IN [off |-> off,
                    seen |-> nav.seen \cup {<<off, ret'>>},
                    moved |-> nav.moved /\ current_position' # current_position]
           ELSE NavFresh

HistoryStep(A) == A /\ UNCHANGED <<lineVars, writerVars, sessVars, wobsVars, navVars>>

NextHistory ==
    \/ \E l \in HistLines : HistoryStep(add_entry(l))
    \/ \E n \in 0..MaxSizeArg : HistoryStep(set_max_size(n))
    \/ \E ls \in SeqsUpTo(HistLines, MaxList) : HistoryStep(set_entries(ls))
    \/ HistoryStep(get_entries)
    \/ HistoryStep(reset_position)
    \/ HistoryStep(search_next)
    \/ HistoryStep(search_previous)

SpecHistory == InitHistory /\ [][NextHistory]_vars

\* a History that is walked back and forth, with the walk observed
NavLines == {<<"a">>, <<"b">>}

NavStep(A) ==
    /\ A
    /\ Navigate
    /\ nav'.off \in (0 - MaxNav)..MaxNav
    /\ UNCHANGED <<lineVars, writerVars, sessVars, wobsVars>>

NextNavigate ==
    \/ \E l \in NavLines : NavStep(add_entry(l))
    \/ NavStep(search_next)
    \/ NavStep(search_previous)

SpecNavigate == InitHistory /\ [][NextNavigate]_vars

-----------------------------------------------------------------------------
(* SharedWriter and the channel: lib.rs:414-489, 506 *)

\* slots of the channel (thingbuf::mpsc::channel(500) in the code)
ChannelCapacity == 2
\* most SharedWriter handles
MaxHandles == 2
\* longest private buffer
MaxBuf == 4
\* most chunks one handle enqueues
MaxSent == 2

WriteBufs == {<<"x">>, <<"x", NL>>}

Handles == DOMAIN buffer
\* a chunk in the channel; from, seq and by say which handle enqueued it, as
\* which of its chunks and in which call, and are no part of the Vec<u8> the
\* code sends
Chunk(h, op, data) == [from |-> h, seq |-> nsent[h] + 1, by |-> op, data |-> data]

\* try_send_ref / send_ref: Closed once the receiver is gone, Full with every
\* slot taken
SendState == IF ~receiver_alive THEN "Closed"
             ELSE IF Len(chan) >= ChannelCapacity THEN "Full"
             ELSE "Ok"

KeepOthersW == UNCHANGED <<histVars, lineVars, sessVars, obsVars, navVars>>

WriterStep(op, h, buf, res, newbuf, enq) ==
    /\ buffer' = [buffer EXCEPT ![h] = newbuf]
    /\ chan' = IF enq = None THEN chan ELSE Append(chan, Chunk(h, op, enq[1]))
    /\ nsent' = IF enq = None THEN nsent ELSE [nsent EXCEPT ![h] = @ + 1]
    /\ handed' = [handed EXCEPT ![h] = IF enq # None THEN <<>>
                                       ELSE IF res = "Ok" THEN handed[h] \o buf
                                       ELSE handed[h]]
    /\ refused' = [refused EXCEPT ![h] = IF enq # None THEN FALSE
                                         ELSE refused[h] \/ res # "Ok"]
    /\ wlog' = [op |-> op, h |-> h, buf |-> buf, res |-> res, seq |-> 0]
    /\ UNCHANGED <<alive, receiver_alive, nrecv>>
    /\ KeepOthersW

\* a write that sends the buffer whether or not it ends in a newline: not what
\* the code does
WriteSendsAlways(h, buf) ==
    LET ext == buffer[h] \o buf
    IN CASE SendState = "Ok" -> [buf |-> <<>>, res |-> "Ok", enq |-> Some(ext)]
         [] SendState = "Full" -> [buf |-> ext, res |-> "WouldBlock", enq |-> None]
         [] OTHER -> [buf |-> ext, res |-> "Closed", enq |-> None]

\* a write that sends its argument instead of the accumulated buffer: not what
\* the code does
WriteSendsArgument(h, buf) ==
    LET ext == buffer[h] \o buf
    IN IF EndsWithNL(ext)
       THEN CASE SendState = "Ok" -> [buf |-> <<>>, res |-> "Ok", enq |-> Some(buf)]
              [] SendState = "Full" -> [buf |-> ext, res |-> "WouldBlock", enq |-> None]
              [] OTHER -> [buf |-> ext, res |-> "Closed", enq |-> None]
       ELSE [buf |-> ext, res |-> "Ok", enq |-> None]

\* <SharedWriter as io::Write>::write (467-485): what becomes of the private
\* buffer, the result, and the chunk enqueued
Write_write(h, buf) ==
    LET ext == buffer[h] \o buf
    IN IF EndsWithNL(ext)
       THEN CASE SendState = "Ok" -> [buf |-> <<>>, res |-> "Ok", enq |-> Some(ext)]
              [] SendState = "Full" -> [buf |-> ext, res |-> "WouldBlock", enq |-> None]
              [] OTHER -> [buf |-> ext, res |-> "Closed", enq |-> None]
       ELSE [buf |-> ext, res |-> "Ok", enq |-> None]

\* <SharedWriter as AsyncWrite>::poll_write (430-450), one poll
AsyncWrite_poll_write(h, buf) ==
    LET ext == buffer[h] \o buf
    IN IF EndsWithNL(ext)
       THEN CASE SendState = "Ok" -> [buf |-> <<>>, res |-> "Ok", enq |-> Some(ext)]
              [] SendState = "Full" -> [buf |-> ext, res |-> "Pending", enq |-> None]
              [] OTHER -> [buf |-> ext, res |-> "Closed", enq |-> None]
       ELSE [buf |-> ext, res |-> "Ok", enq |-> None]

\* <SharedWriter as AsyncWrite>::poll_flush (451-461), one poll
AsyncWrite_poll_flush(h) ==
    CASE SendState = "Ok" -> [buf |-> <<>>, res |-> "Ok", enq |-> Some(buffer[h])]
      [] SendState = "Full" -> [buf |-> buffer[h], res |-> "Pending", enq |-> None]
      [] OTHER -> [buf |-> buffer[h], res |-> "Closed", enq |-> None]

CanWrite(h, buf) ==
    /\ h \in Handles /\ alive[h]
    /\ Len(buffer[h]) + Len(buf) <= MaxBuf
    /\ nsent[h] < MaxSent

write(h, buf) ==
    /\ CanWrite(h, buf)
    /\ LET w == Write_write(h, buf)
       IN WriterStep("write", h, buf, w.res, w.buf, w.enq)

poll_write(h, buf) ==
    /\ CanWrite(h, buf)
    /\ LET w == AsyncWrite_poll_write(h, buf)
       IN WriterStep("poll_write", h, buf, w.res, w.buf, w.enq)

\* <SharedWriter as io::Write>::flush (486-488)
flush(h) ==
    /\ h \in Handles /\ alive[h]
    /\ WriterStep("flush", h, <<>>, "Ok", buffer[h], None)

poll_flush(h) ==
    /\ CanWrite(h, <<>>)
    /\ LET w == AsyncWrite_poll_flush(h)
       IN WriterStep("poll_flush", h, <<>>, w.res, w.buf, w.enq)

\* a clone that starts with a copy of the pending bytes: not what the code does
CloneCopiesBuffer(h) == buffer[h]

\* the buffer of the clone: Vec::new() (424)
CloneBuffer(h) == <<>>

\* <SharedWriter as Clone>::clone (421-428)
clone(h) ==
    /\ h \in Handles /\ alive[h]
    /\ Len(buffer) < MaxHandles
    /\ buffer' = Append(buffer, CloneBuffer(h))
    /\ alive' = Append(alive, TRUE)
    /\ handed' = Append(handed, <<>>)
    /\ refused' = Append(refused, FALSE)
    /\ nsent' = Append(nsent, 0)
    /\ nrecv' = Append(nrecv, 0)
    /\ wlog' = [op |-> "clone", h |-> h, buf |-> <<>>, res |-> "Ok", seq |-> 0]
    /\ UNCHANGED <<chan, receiver_alive>>
    /\ KeepOthersW

\* a handle goes out of scope: its pending bytes go with it
drop_writer(h) ==
    /\ h \in Handles /\ alive[h]
    /\ alive' = [alive EXCEPT ![h] = FALSE]
    /\ buffer' = [buffer EXCEPT ![h] = <<>>]
    /\ handed' = [handed EXCEPT ![h] = <<>>]
    /\ refused' = [refused EXCEPT ![h] = FALSE]
    /\ wlog' = [op |-> "drop_writer", h |-> h, buf |-> <<>>, res |-> "Ok", seq |-> 0]
    /\ UNCHANGED <<chan, receiver_alive, nsent, nrecv>>
    /\ KeepOthersW

\* Receiver::recv_ref: the oldest chunk leaves the channel
\* a receiver that takes the chunk queued last
RecvNewest(c) == <<c[Len(c)], SubSeq(c, 1, Len(c) - 1)>>

Recv(c) == <<Head(c), Tail(c)>>

recv_ref ==
    /\ receiver_alive
    /\ chan # <<>>
    /\ chan' = Recv(chan)[2]
    /\ nrecv' = [nrecv EXCEPT ![Recv(chan)[1].from] = @ + 1]
    /\ wlog' = [op |-> "recv_ref", h |-> Recv(chan)[1].from,
                buf |-> Recv(chan)[1].data, res |-> "Ok", seq |-> Recv(chan)[1].seq]
    /\ UNCHANGED <<buffer, alive, receiver_alive, handed, refused, nsent>>
    /\ KeepOthersW

\* the Readline, and its Receiver with it, is dropped
drop_receiver ==
    /\ receiver_alive
    /\ receiver_alive' = FALSE
    /\ wlog' = [op |-> "drop_receiver", h |-> 0, buf |-> <<>>, res |-> "Ok", seq |-> 0]
    /\ UNCHANGED <<buffer, alive, chan, handed, refused, nsent, nrecv>>
    /\ KeepOthersW

LineIdle ==
    /\ \E p \in InitPrompts : LineNew(p, <<4, 24>>)
    /\ should_print_line_on_enter = TRUE /\ should_print_line_on_control_c = TRUE

\* with_history (506, 517-523): one handle with an empty buffer, an empty channel
WriterNew ==
    /\ buffer = <<<<>>>> /\ alive = <<TRUE>> /\ chan = <<>> /\ receiver_alive = TRUE
    /\ handed = <<<<>>>> /\ refused = <<FALSE>> /\ nsent = <<0>> /\ nrecv = <<0>>
    /\ wlog = [op |-> "new", h |-> 0, buf |-> <<>>, res |-> "Ok", seq |-> 0]

InitWriter == LineIdle /\ WriterNew /\ SessionIdle /\ ObserveNothing

NextWriter ==
    \/ \E h \in Handles, buf \in WriteBufs : write(h, buf)
    \/ \E h \in Handles, buf \in WriteBufs : poll_write(h, buf)
    \/ \E h \in Handles : clone(h)
    \/ \E h \in Handles : drop_writer(h)
    \/ recv_ref
    \/ drop_receiver

SpecWriter == InitWriter /\ [][NextWriter]_vars

\* one handle that is also flushed, with and without a newline pending
NextFlush ==
    \/ \E buf \in WriteBufs : write(1, buf)
    \/ \E buf \in WriteBufs : poll_write(1, buf)
    \/ flush(1)
    \/ poll_flush(1)
    \/ recv_ref
    \/ drop_receiver

SpecFlush == InitWriter /\ [][NextFlush]_vars

\* handles written to by tasks only: a poll that returns Pending is polled
\* again, with the same bytes, once the task is woken
NextAsync ==
    \/ \E h \in Handles, buf \in WriteBufs : poll_write(h, buf)
    \/ \E h \in Handles : clone(h)
    \/ recv_ref
    \/ drop_receiver

SpecAsync == InitWriter /\ [][NextAsync]_vars

\* handles that each write a byte of their own, so that a chunk shows through
\* which handles its bytes came
HandleByte(h) == IF h = 1 THEN "x" ELSE "y"
HandleBufs(h) == {<<HandleByte(h)>>, <<HandleByte(h), NL>>}

NextClone ==
    \/ \E h \in Handles : \E buf \in HandleBufs(h) : write(h, buf)
    \/ \E h \in Handles : clone(h)
    \/ \E h \in Handles : drop_writer(h)
    \/ recv_ref

SpecClone == InitWriter /\ [][NextClone]_vars

-----------------------------------------------------------------------------
(* Readline: lib.rs:491-561 *)

SessionChars == {"a"}
SessionSizes == {<<0, 24>>}
SessionBufs == {<<"x", NL>>}
MaxSessionLine == 1

IOError == [ev |-> "IO", text |-> <<>>]
Closed == [ev |-> "Closed", text |-> <<>>]

EnableLineWrap == <<Cmd("EnableLineWrap", 0, <<>>)>>

KeepLineAndHistory == UNCHANGED <<histVars, lineVars, obsVars, navVars>>
KeepWriter == UNCHANGED <<writerVars, wobsVars>>

\* Readline::with_history (505-524).  fails names the call whose error `?`
\* returns: "raw" enable_raw_mode (507), "size" terminal::size (512), "render"
\* render, queue or flush (514-516), "none" for Ok
Construct(fails) ==
    [acquired |-> fails # "raw",
     released |-> fails = "render",
     built |-> fails = "none"]

with_history(fails) ==
    /\ pc = "idle"
    /\ LET c == Construct(fails)
       IN /\ raw_acquired' = raw_acquired + (IF c.acquired THEN 1 ELSE 0)
          /\ raw_released' = raw_released + (IF c.released THEN 1 ELSE 0)
          /\ raw_enabled' = (c.acquired /\ ~c.released)
          /\ pc' = IF c.built THEN "ready" ELSE "failed"
          /\ receiver_alive' = c.built
          /\ term' = IF c.built
                     THEN render(prompt, line, current_column) \o EnableLineWrap
                     ELSE <<>>
    /\ flushed' = TRUE
    /\ returned' = None
    /\ arm' = "with_history"
    /\ UNCHANGED resumed
    /\ last' = [op |-> "with_history", line |-> <<>>, n |-> 0]
    /\ UNCHANGED <<histVars, line, line_cursor_grapheme, current_column,
                   cluster_buffer, prompt, prompt_len, should_print_line_on_enter,
                   should_print_line_on_control_c, last_line_length,
                   last_line_completed, term_size, panicked, ret, run>>
    /\ UNCHANGED <<buffer, alive, chan, wobsVars, navVars>>

\* <Readline as Drop>::drop (557-561); a panic unwinds through it
drop_readline ==
    /\ pc \in {"ready", "reading"}
    /\ pc' = "dropped"
    /\ raw_released' = raw_released + 1
    /\ raw_enabled' = FALSE
    /\ receiver_alive' = FALSE
    /\ arm' = "drop"
    /\ UNCHANGED <<raw_acquired, flushed, returned, resumed>>
    /\ UNCHANGED <<buffer, alive, chan, wobsVars>>
    /\ KeepLineAndHistory

\* Readline::flush (525-527): raw_term.flush() and nothing else; flush_fails:
\* it is an Err.  last.n alternates so that every call is a step
readline_flush(flush_fails) ==
    /\ pc = "ready" /\ ~panicked
    /\ flushed' = IF flush_fails THEN flushed ELSE TRUE
    /\ returned' = IF flush_fails THEN Some(IOError) ELSE None
    /\ arm' = "flush"
    /\ last' = [op |-> "flush", line |-> <<>>,
                n |-> IF last.op = "flush" THEN 1 - last.n ELSE 0]
    /\ UNCHANGED <<pc, raw_enabled, raw_acquired, raw_released, resumed, ret, run,
                   nav>>
    /\ UNCHANGED <<histVars, lineVars>>
    /\ KeepWriter

\* readline() is called (528)
readline_call ==
    /\ pc = "ready" /\ ~panicked
    /\ pc' = "reading"
    /\ returned' = None
    /\ arm' = "call"
    /\ resumed' = (returned \in {Some(Eof), Some(Interrupted)})
    /\ UNCHANGED <<raw_enabled, raw_acquired, raw_released, flushed>>
    /\ KeepWriter /\ KeepLineAndHistory

\* a select that takes the terminal event whenever one is ready, and an event
\* is always ready here
SelectEventsFirst(a) == a = "event"

\* futures::select! (530) takes any of the arms that are ready
Selectable(a) == TRUE

\* what the event arm does with handle_event's result (533-537): whether it
\* flushes, and whether it returns
EventArm(r) == [flush |-> r = None, return |-> r # None]

\* the event arm of select! (531-538); flush_fails: raw_term.flush()? is an Err
readline_event(flush_fails) ==
    /\ pc = "reading" /\ ~panicked
    /\ Selectable("event")
    /\ handle_event(SessionChars, SessionSizes)
    /\ Len(line') <= MaxSessionLine
    /\ LET does == EventArm(ret')
       IN /\ flushed' = IF does.flush /\ ~flush_fails /\ ~panicked' THEN TRUE
                        ELSE IF term' = <<>> THEN flushed ELSE FALSE
          /\ returned' = IF panicked' THEN None
                         ELSE IF does.return THEN ret'
                         ELSE IF flush_fails THEN Some(IOError) ELSE None
          /\ pc' = IF panicked' THEN "reading"
                   ELSE IF does.return \/ flush_fails THEN "ready" ELSE "reading"
    /\ arm' = "event"
    /\ UNCHANGED <<raw_enabled, raw_acquired, raw_released, resumed, nav>>
    /\ KeepWriter

\* the event stream yields an error (539)
readline_event_error ==
    /\ pc = "reading" /\ ~panicked
    /\ pc' = "ready"
    /\ returned' = Some(IOError)
    /\ arm' = "event_error"
    /\ UNCHANGED <<raw_enabled, raw_acquired, raw_released, flushed, resumed>>
    /\ KeepWriter /\ KeepLineAndHistory

\* the chunk arm of select! (542-546)
readline_chunk(flush_fails) ==
    /\ pc = "reading" /\ ~panicked
    /\ Selectable("chunk")
    /\ chan # <<>>
    /\ print_data(Recv(chan)[1].data)
    /\ chan' = Recv(chan)[2]
    /\ nrecv' = [nrecv EXCEPT ![Recv(chan)[1].from] = @ + 1]
    /\ wlog' = [op |-> "recv_ref", h |-> Recv(chan)[1].from,
                buf |-> Recv(chan)[1].data, res |-> "Ok", seq |-> Recv(chan)[1].seq]
    /\ flushed' = ~flush_fails
    /\ returned' = IF flush_fails THEN Some(IOError) ELSE None
    /\ pc' = IF flush_fails THEN "ready" ELSE "reading"
    /\ arm' = "chunk"
    /\ UNCHANGED <<raw_enabled, raw_acquired, raw_released, resumed, nav>>
    /\ UNCHANGED <<buffer, alive, receiver_alive, handed, refused, nsent>>

\* a receiver that reports closure as soon as the senders are gone
RecvClosedWithQueued == \A h \in Handles : ~alive[h]

\* recv_ref yields None (547): every SharedWriter is gone and the channel is
\* empty
RecvClosed == chan = <<>> /\ \A h \in Handles : ~alive[h]

\* the None arm of recv_ref (547)
readline_closed ==
    /\ pc = "reading" /\ ~panicked
    /\ RecvClosed
    /\ pc' = "ready"
    /\ returned' = Some(Closed)
    /\ arm' = "closed"
    /\ UNCHANGED <<raw_enabled, raw_acquired, raw_released, flushed, resumed>>
    /\ KeepWriter /\ KeepLineAndHistory

InitSession ==
    /\ LineIdle
    /\ buffer = <<<<>>>> /\ alive = <<TRUE>> /\ chan = <<>> /\ receiver_alive = FALSE
    /\ handed = <<<<>>>> /\ refused = <<FALSE>> /\ nsent = <<0>> /\ nrecv = <<0>>
    /\ wlog = [op |-> "new", h |-> 0, buf |-> <<>>, res |-> "Ok", seq |-> 0]
    /\ SessionIdle /\ ObserveNothing

\* the caller's side of the session: it holds the SharedWriter once built
Built == pc \in {"ready", "reading", "dropped"}

NextSession ==
    \/ \E fails \in {"none", "raw", "size", "render"} : with_history(fails)
    \/ readline_call
    \/ \E ff \in BOOLEAN : readline_event(ff)
    \/ readline_event_error
    \/ \E ff \in BOOLEAN : readline_chunk(ff)
    \/ readline_closed
    \/ \E ff \in BOOLEAN : readline_flush(ff)
    \/ drop_readline
    \/ \E buf \in SessionBufs : Built /\ write(1, buf)
    \/ Built /\ drop_writer(1)

SpecSession == InitSession /\ [][NextSession]_vars

\* select! polls recv_ref on every iteration, and a closed channel is ready at
\* once (530, 541)
SpecSessionFair == SpecSession /\ WF_vars(readline_closed)

\* futures::select! (530) chooses pseudo-randomly among the arms that are
\* ready, so an arm that stays ready is taken in some iteration
NextSelect ==
    \/ with_history("none")
    \/ readline_call
    \/ \E ff \in BOOLEAN : readline_event(ff)
    \/ \E ff \in BOOLEAN : readline_chunk(ff)
    \/ \E buf \in SessionBufs : Built /\ write(1, buf)

SpecSelectFair ==
    /\ InitSession /\ [][NextSelect]_vars
    /\ WF_vars(\E ff \in BOOLEAN : readline_chunk(ff))
    /\ WF_vars(\E ff \in BOOLEAN : readline_event(ff))

-----------------------------------------------------------------------------
(* Properties *)

\* C1: in every state reached through handle_event and update_prompt, the
\* cursor grapheme index is at least 0 and at most the number of grapheme
\* clusters in the edit buffer.
C1_CursorWithinBuffer ==
    0 <= line_cursor_grapheme /\ line_cursor_grapheme <= GCount(line)

\* C2: after any sequence of add_entry, set_max_size and set_entries calls the
\* History stores at most max_size entries, no two adjacent stored entries are
\* equal, and no stored entry is the empty string.
C2_HistoryBounded ==
    /\ Len(entries) <= max_size
    /\ \A i \in 1..(Len(entries) - 1) : entries[i] # entries[i + 1]
    /\ \A i \in 1..Len(entries) : entries[i] # <<>>

\* an add_entry on a full History has just evicted the oldest entry
C2_EvictedAtCapacity ==
    /\ last.op = "add_entry" /\ last.n = 1
    /\ Len(entries) = max_size /\ Len(entries) >= 2
    /\ Back(entries) = Some(last.line)

\* C3: with free channel capacity (the receiver alive, a free slot, and no call
\* on the handle refused since its previous chunk), a write or poll_write
\* enqueues nothing while the handle's accumulated bytes do not end in a
\* newline; the write that makes them end in a newline enqueues exactly one
\* chunk, equal to all bytes written on the handle since its previous chunk,
\* and leaves the private buffer empty; and the consumer receives the chunks
\* of one handle in the order they were enqueued.
C3_ChunkPerLine ==
    [][/\ (wlog'.op \in {"write", "poll_write"}
           /\ SendState = "Ok" /\ ~refused[wlog'.h])
          => LET h == wlog'.h
                 all == handed[h] \o wlog'.buf
             IN /\ wlog'.res = "Ok"
                /\ ~EndsWithNL(all) => chan' = chan
                /\ EndsWithNL(all)
                      => /\ Len(chan') = Len(chan) + 1
                         /\ SubSeq(chan', 1, Len(chan)) = chan
                         /\ chan'[Len(chan')].from = h
                         /\ chan'[Len(chan')].data = all
                         /\ buffer'[h] = <<>>
       /\ wlog'.op = "recv_ref" => wlog'.seq = nrecv[wlog'.h] + 1
      ]_vars

\* the consumer has received the second chunk of a handle, a line built up by
\* two writes
C3_SecondChunkReceived ==
    /\ wlog.op = "recv_ref" /\ wlog.seq = 2
    /\ wlog.buf = <<"x", "x", NL>>

\* C4: with the channel full, a write that would complete a line fails with
\* WouldBlock, puts nothing in the channel and leaves the handle's private
\* buffer as it was before the call; the same write retried once a slot is
\* free succeeds, and its chunk holds every written byte exactly once, in
\* write order.
C4_RefusedWriteKeepsBuffer ==
    [][wlog'.op = "write"
          => LET h == wlog'.h
                 completes == EndsWithNL(buffer[h] \o wlog'.buf)
             IN /\ (completes /\ SendState = "Full")
                      => /\ wlog'.res = "WouldBlock"
                         /\ chan' = chan
                         /\ buffer'[h] = buffer[h]
                /\ (completes /\ SendState = "Ok")
                      => /\ wlog'.res = "Ok"
                         /\ chan'[Len(chan')].data = handed[h] \o wlog'.buf
      ]_vars

\* the bytes of the Write commands of a command sequence, concatenated
RECURSIVE Written(_)
Written(out) ==
    IF out = <<>> THEN <<>>
    ELSE (IF Head(out).cmd = "Write" THEN Head(out).s ELSE <<>>) \o Written(Tail(out))

\* C5: print_data leaves the edit buffer, the cursor grapheme index and the
\* cursor column unchanged, and what it queues on the terminal is, in order:
\* the clear of the current prompt render, the chunk bytes (followed by
\* nothing but line breaks), and the full redraw of prompt and buffer with the
\* cursor at the column it had before.
C5_PrintDataRedraws ==
    [][last'.op = "print_data"
          => LET c == clear(current_column)
                 r == render(prompt, line, current_column)
                 data == last'.line
                 mid == Written(SubSeq(term', Len(c) + 1, Len(term') - Len(r)))
             IN /\ line' = line
                /\ line_cursor_grapheme' = line_cursor_grapheme
                /\ current_column' = current_column
                /\ Len(term') >= Len(c) + Len(r)
                /\ SubSeq(term', 1, Len(c)) = c
                /\ SubSeq(term', Len(term') - Len(r) + 1, Len(term')) = r
                /\ Len(mid) >= Len(data)
                /\ SubSeq(mid, 1, Len(data)) = data
                /\ \A i \in (Len(data) + 1)..Len(mid) : mid[i] = NL
      ]_vars

\* a chunk without a final newline was printed over a buffer with the cursor
\* inside it
C5_PrintedOverEditedLine ==
    /\ last.op = "print_data" /\ ~EndsWithNL(last.line)
    /\ Len(line) >= 2 /\ line_cursor_grapheme < GCount(line)
    /\ line_cursor_grapheme > 0

\* C6: every raw-mode acquisition made by Readline construction is followed
\* by exactly one release on every exit path: the session dropped, and
\* construction failing after raw mode was enabled.
C6_RawModeReleased ==
    /\ raw_released <= raw_acquired
    /\ pc \in {"failed", "dropped"} => raw_released = raw_acquired

\* C7: in the readline loop, when handle_event yields an output event the
\* terminal output is flushed and that event is returned; when it yields none
\* the terminal output is flushed and readline keeps waiting.
C7_FlushedAfterEvent ==
    (arm = "event" /\ ~panicked)
       => IF ret # None
          THEN flushed /\ returned = ret /\ pc = "ready"
          ELSE returned = None => (flushed /\ pc = "reading")

\* C8: Enter returns one Line event whose text is the whole edit buffer at the
\* key press, whatever the cursor position; afterwards the buffer is empty,
\* the cursor grapheme index is 0 and the History position is fresh.
C8_EnterTakesLine ==
    [][last'.op = "Enter"
          => /\ ret' = Some([ev |-> "Line", text |-> line])
             /\ line' = <<>>
             /\ line_cursor_grapheme' = 0
             /\ current_position' = None
      ]_vars

\* Enter was pressed with the cursor inside a buffer of several clusters
C8_EnterInsideLine ==
    /\ last.op = "Enter" /\ GCount(last.line) >= 2
    /\ 0 < last.n /\ last.n < GCount(last.line)
    /\ ret = Some([ev |-> "Line", text |-> last.line])

\* C9: from a fresh position on a History of n >= 1 entries, the k-th
\* consecutive search_next returns the k-th newest entry for k <= n and the
\* oldest entry for every k > n; on an empty History it returns nothing.
C9_SearchNextWalksBack ==
    (last.op = "search_next" /\ run > 0)
       => IF entries = <<>> THEN ret = None
          ELSE ret = Some(entries[Max(Len(entries) - run + 1, 1)])

\* search_next was called more often than there are entries
C9_PastTheOldest ==
    /\ last.op = "search_next" /\ run > Len(entries)
    /\ Len(entries) >= 2 /\ entries[1] # entries[Len(entries)]
    /\ ret = Some(entries[1])

\* C10: search_previous from a fresh position returns nothing and leaves the
\* position fresh; on the newest entry it returns the empty string and makes
\* the position fresh, so the search_previous right after it returns nothing;
\* on an older entry it moves to the next newer entry and returns it.
C10_SearchPreviousWalksForward ==
    [][last'.op = "search_previous"
          => /\ current_position = None
                   => (ret' = None /\ current_position' = None)
             /\ current_position = Some(Len(entries) - 1)
                   => (ret' = Some(<<>>) /\ current_position' = None)
             /\ (current_position # None /\ current_position[1] < Len(entries) - 1)
                   => /\ current_position' = Some(current_position[1] + 1)
                      /\ ret' = Some(entries[current_position[1] + 2])
             /\ (last.op = "search_previous" /\ ret = Some(<<>>)) => ret' = None
      ]_vars

\* search_previous has just returned the empty string from the newest entry
C10_SentinelReturned ==
    /\ last.op = "search_previous" /\ ret = Some(<<>>)
    /\ current_position = None /\ Len(entries) >= 2

\* C11: an add_entry call that stores a new line, at any navigation position,
\* makes the position fresh: a search_previous right after it returns nothing,
\* and the search_next calls right after it return the line just added, then
\* the older entries in order.
C11_AddEntryResetsPosition ==
    [][/\ last'.op = "add_entry" => current_position' = None
       /\ (last.op = "add_entry" /\ last'.op = "search_previous") => ret' = None
       /\ (last'.op = "search_next" /\ last'.line # <<>>
           /\ Back(entries) = Some(last'.line))
             => /\ run' >= 1
                /\ run' = 1 => ret' = Some(last'.line)
                /\ ret' = Some(entries[Max(Len(entries) - run' + 1, 1)])
      ]_vars

\* the second search_next after an add_entry that evicted the oldest entry
C11_SecondAfterAdd ==
    /\ last.op = "search_next" /\ run = 2
    /\ last.line # <<>> /\ Back(entries) = Some(last.line)
    /\ Len(entries) = max_size /\ Len(entries) >= 2
    /\ ret = Some(entries[Len(entries) - 1])

\* C12: a poll_write that completes a line while the channel is full does
\* not fail: it returns Pending and enqueues nothing; polled again once the
\* consumer has freed a slot it completes, and the chunk the consumer gets
\* holds the handle's written bytes exactly once, in write order.
C12_SuspendedWriteCompletes ==
    [][wlog'.op = "poll_write"
          => LET h == wlog'.h
                 completes == EndsWithNL(buffer[h] \o wlog'.buf)
             IN /\ (completes /\ SendState = "Full")
                      => (wlog'.res = "Pending" /\ chan' = chan)
                /\ (completes /\ SendState = "Ok")
                      => /\ wlog'.res = "Ok"
                         /\ chan'[Len(chan')].data = handed[h] \o wlog'.buf
                         /\ buffer'[h] = <<>>
      ]_vars

\* C13: every chunk the consumer receives either ends in a newline or was
\* enqueued by an explicit flush; no write or poll_write enqueues a chunk that
\* does not end in a newline.
C13_ChunksEndInNewline ==
    [][/\ wlog'.op = "recv_ref"
             => \/ Head(chan).by \in {"flush", "poll_flush"}
                \/ EndsWithNL(Head(chan).data)
       /\ (wlog'.op \in {"write", "poll_write"} /\ chan' # chan)
             => /\ Len(chan') = Len(chan) + 1
                /\ EndsWithNL(chan'[Len(chan')].data)
      ]_vars

\* the consumer has received pending bytes without a newline, which a flush
\* enqueued
C13_FlushedChunkReceived ==
    /\ wlog.op = "recv_ref"
    /\ wlog.buf # <<>> /\ ~EndsWithNL(wlog.buf)

\* C14: a flush on a handle whose private buffer holds pending bytes that do
\* not end in a newline enqueues those bytes as one chunk and leaves the
\* private buffer empty, through io::Write::flush as well as through
\* poll_flush.
C14_FlushEnqueuesPending ==
    [][(wlog'.op \in {"flush", "poll_flush"}
        /\ buffer[wlog'.h] # <<>> /\ ~EndsWithNL(buffer[wlog'.h])
        /\ SendState = "Ok")
          => /\ Len(chan') = Len(chan) + 1
             /\ SubSeq(chan', 1, Len(chan)) = chan
             /\ chan'[Len(chan')].data = buffer[wlog'.h]
             /\ buffer'[wlog'.h] = <<>>
      ]_vars

\* C15: readline() returns Closed only from a state where every SharedWriter
\* has been dropped, the channel is empty and every chunk that was sent has been
\* received; and a readline() that is running in such a state, unless a
\* terminal event ends it first, does return rather than wait forever.
C15_ClosedAfterLastWriter ==
    /\ [][(returned' = Some(Closed) /\ returned # Some(Closed))
            => /\ \A h \in Handles : ~alive[h]
               /\ chan = <<>>
               /\ \A h \in Handles : nrecv[h] = nsent[h]]_vars
    /\ (pc = "reading" /\ RecvClosed /\ ~panicked) ~> (pc # "reading" \/ panicked)

C15_ClosedAfterChunk ==
    /\ arm = "closed" /\ returned = Some(Closed)
    /\ nrecv[1] >= 1 /\ pc = "ready"

\* C16: a call of Readline::flush renders every chunk that is queued in the
\* writer channel when it is called and then flushes the terminal: when it
\* returns Ok no chunk is left in the channel, each of them has been received
\* and the terminal is flushed.
C16_FlushDrainsQueued ==
    [][(last'.op = "flush" /\ last' # last /\ returned' = None)
        => /\ chan' = <<>>
           /\ \A h \in Handles : nrecv'[h] = nsent[h]
           /\ flushed']_vars

\* C17: the step of readline() that receives a chunk takes the oldest queued
\* chunk (so chunks are rendered in the order they were sent and received),
\* renders exactly that chunk with print_data, and in the same step flushes the
\* terminal and goes on waiting; it returns nothing to the caller, except the
\* IO error of a terminal write that failed.
C17_ChunkRenderedInLoop ==
    [][nrecv' # nrecv
        => /\ chan # <<>> /\ chan' = Tail(chan)
           /\ wlog'.seq = nrecv[Head(chan).from] + 1
           /\ last' = [op |-> "print_data", line |-> Head(chan).data, n |-> 0]
           /\ term' = PrintData(Head(chan).data).out
           /\ \/ returned' = None /\ flushed' /\ pc' = "reading"
              \/ returned' = Some(IOError) /\ pc' = "ready"]_vars

C17_SecondChunkRendered ==
    /\ arm = "chunk" /\ wlog.op = "recv_ref" /\ wlog.seq = 2
    /\ last.op = "print_data" /\ flushed
    /\ pc = "reading" /\ returned = None

C19_ColumnRecomputable ==
    ~panicked =>
        current_column = ansi_width(prompt)
                         + ansi_width(Take(line, GOffset(line, line_cursor_grapheme)))

\* C20: a Ctrl-Right press strictly advances the cursor while it is before the
\* end of the buffer and changes nothing at the end; a Ctrl-Left press strictly
\* moves the cursor back while it is after 0 and changes nothing at 0.  The
\* cursor then reaches the end, or 0, after at most as many presses as the
\* buffer has grapheme clusters.
C20_WordMotionProgresses ==
    [][/\ (last'.op = "CtrlRight" /\ ~panicked')
           => /\ line' = line
              /\ IF line_cursor_grapheme < GCount(line)
                 THEN /\ line_cursor_grapheme' > line_cursor_grapheme
                      /\ line_cursor_grapheme' <= GCount(line)
                 ELSE line_cursor_grapheme' = line_cursor_grapheme
       /\ (last'.op = "CtrlLeft" /\ ~panicked')
           => /\ line' = line
              /\ IF line_cursor_grapheme > 0
                 THEN line_cursor_grapheme' < line_cursor_grapheme
                 ELSE line_cursor_grapheme' = 0]_vars

\* C21: once the Readline with its Receiver is gone, every write on every
\* handle fails with the closed error, which is not the would-block error.
C21_WriteFailsAfterReceiverGone ==
    (~receiver_alive /\ wlog.op = "write") => wlog.res = "Closed"

\* C22: clone gives the new handle an empty private buffer and leaves the
\* buffers of the existing handles as they are; every chunk in the channel
\* holds only bytes written through the handle that sent it, and a chunk sent
\* after accepted writes only is those writes' bytes in the order of the calls.
C22_ChunksOfOneHandle ==
    /\ [](\A i \in DOMAIN chan : \A k \in DOMAIN chan[i].data :
              chan[i].data[k] \in {HandleByte(chan[i].from), NL})
    /\ [][/\ Len(buffer') = Len(buffer) + 1
              => /\ buffer'[Len(buffer')] = <<>>
                 /\ \A h \in Handles : buffer'[h] = buffer[h]
          /\ \A h \in Handles :
                (nsent'[h] = nsent[h] + 1 /\ ~refused[h])
                => chan'[Len(chan')].data = handed[h] \o wlog'.buf]_vars

C22_BothHandlesQueued ==
    \E i, j \in DOMAIN chan :
        /\ chan[i].from = 1 /\ chan[j].from = 2
        /\ chan[i].data = <<"x", "x", NL>>
        /\ chan[j].data = <<"y", "y", NL>>
        /\ buffer = <<<<"x">>, <<"y">>>>

\* C23: while readline() is running with a chunk queued in the channel, and
\* the call has just begun or handled a terminal event, a chunk is received and
\* rendered, whatever terminal events arrive meanwhile; and after a chunk was
\* rendered or the call began a terminal event is handled, whatever chunks
\* arrive meanwhile; each unless readline() returns or panics first.
C23_NeitherArmStarves ==
    /\ (pc = "reading" /\ ~panicked /\ chan # <<>> /\ arm \in {"call", "event"})
       ~> (arm = "chunk" \/ pc # "reading" \/ panicked)
    /\ (pc = "reading" /\ ~panicked /\ arm \in {"call", "chunk"})
       ~> (arm \in {"event", "event_error"} \/ pc # "reading" \/ panicked)

C23_EventThenChunk ==
    /\ pc = "reading" /\ arm = "chunk" /\ nrecv[1] = 2 /\ chan = <<>>
    /\ last.op = "print_data" /\ line # <<>>

\* whether a queued command is MoveToColumn(0), and whether it writes a byte
\* other than a newline
IsReturn(c) == c.cmd = "MoveToColumn" /\ c.n = 0
Prints(c) == c.cmd = "Write" /\ \E k \in DOMAIN c.s : c.s[k] # NL

\* every newline written in out is followed by MoveToColumn(0) before any byte
\* other than a newline is written
NewlinesReturned(out) ==
    \A i \in DOMAIN out :
        (out[i].cmd = "Write" /\ \E k \in DOMAIN out[i].s : out[i].s[k] = NL)
        => /\ \A k \in DOMAIN out[i].s :
                 out[i].s[k] = NL => \A m \in (k + 1)..Len(out[i].s) : out[i].s[m] = NL
           /\ \E j \in (i + 1)..Len(out) :
                 /\ IsReturn(out[j])
                 /\ \A m \in (i + 1)..(j - 1) : ~Prints(out[m])

\* C24: in what print_data, the Enter and Ctrl-C echo and Ctrl-D queue on the
\* terminal, every newline byte is followed by MoveToColumn(0) before any
\* further printable byte.
C24_NewlineThenColumnZero ==
    last.op \in {"print_data", "Enter", "CtrlC", "CtrlD"} => NewlinesReturned(term)

C24_NewlineInsideChunk ==
    /\ last.op = "print_data" /\ last.line = <<"x", NL, "x">>
    /\ line # <<>> /\ ~last_line_completed

\* C25: set_max_size(n) keeps exactly the min(n, count) newest entries in
\* their order, makes n the capacity (an add_entry that follows leaves at most n
\* entries) and resets the navigation position: a search_next that follows
\* returns the newest remaining entry, or nothing when none remains.
C25_SetMaxSizeKeepsNewest ==
    [][/\ last'.op = "set_max_size"
          => LET n == last'.n
                 k == Min(n, Len(entries))
             IN /\ entries' = SubSeq(entries, Len(entries) - k + 1, Len(entries))
                /\ max_size' = n
                /\ current_position' = None
       /\ (last.op = "set_max_size" /\ last'.op = "add_entry")
          => Len(entries') <= last.n
       /\ (last.op = "set_max_size" /\ last'.op = "search_next")
          => ret' = Back(entries)]_vars

C25_NewestAfterTruncation ==
    /\ last.op = "search_next" /\ last.n = 2
    /\ max_size = 1 /\ Len(entries) = 1 /\ ret = Some(entries[1])
    /\ current_position = Some(0)

\* no offset at which two different results were seen
SameTextAtSameOffset ==
    \A a, b \in nav.seen : a[1] = b[1] => a[2] = b[2]

\* C26 as stated: in any sequence of search_next and search_previous calls, a
\* call that brings the net offset back to an earlier value returns what was
\* returned at that earlier point.
C26_SameOffsetSameText == SameTextAtSameOffset

\* C26 amended: the same, for sequences in which every call moves the
\* navigation position (no search_next at the oldest entry, no
\* search_previous at a fresh position).
C26_SameOffsetSameTextWhileMoving == nav.moved => SameTextAtSameOffset

C26_BackAndForthAgain ==
    /\ nav.moved /\ nav.off = 1 /\ Len(entries) = 3
    /\ <<3, Some(entries[1])>> \in nav.seen
    /\ <<0, Some(<<>>)>> \in nav.seen
    /\ last.op = "search_next" /\ ret = Some(entries[3])

\* C27: add_entry with the empty line, or with a line equal to the newest
\* stored entry, changes neither the stored entries nor the navigation position.
C27_SkippedAddIsNoOp ==
    [][(last'.op = "add_entry"
          /\ (last'.line = <<>> \/ Back(entries) = Some(last'.line)))
        => /\ entries' = entries
           /\ current_position' = current_position]_vars

\* the part of data after its last newline
RECURSIVE AfterLastNL(_)
AfterLastNL(data) ==
    IF data = <<>> \/ data[Len(data)] = NL THEN <<>>
    ELSE Append(AfterLastNL(SubSeq(data, 1, Len(data) - 1)), data[Len(data)])

HasNL(data) == \E k \in DOMAIN data : data[k] = NL

\* C28: after print_data(data), when data ends in a newline the open-line flag
\* says completed and the recorded width is 0; otherwise the flag says not
\* completed and the recorded width is the display width of the output since
\* the last newline (the segment left open before, when data has no newline,
\* plus the part of data after its last newline) modulo the terminal width.
C28_OpenLineWidthRecorded ==
    [][last'.op = "print_data"
        => LET data == last'.line
               before == IF HasNL(data) \/ last_line_completed THEN 0
                         ELSE last_line_length
           IN IF EndsWithNL(data)
              THEN last_line_completed' /\ last_line_length' = 0
              ELSE /\ ~last_line_completed'
                   /\ last_line_length'
                        = (before + ansi_width(AfterLastNL(data))) % Width]_vars

\* the grapheme index at which the word before the cursor starts: just after
\* the space that ends the word before it, 0 without such a space
WordStart(s, cur) ==
    IF WordLeftSpace(s, cur) = None THEN 0 ELSE WordLeftSpace(s, cur)[1] + 1

\* C29: Ctrl-W removes exactly the graphemes from the start of the word before
\* the cursor up to the cursor, keeps the text before and the text from the
\* cursor on, and leaves the cursor grapheme index at the start of the removed
\* word, whatever the byte lengths of the graphemes.
C29_CtrlWRemovesWord ==
    [][(last'.op = "CtrlW" /\ ~panicked')
        => LET start == WordStart(line, line_cursor_grapheme)
           IN /\ line' = Take(line, GOffset(line, start))
                          \o Drop(line, GOffset(line, line_cursor_grapheme))
              /\ line_cursor_grapheme' = start]_vars

\* C30: when Up or Down obtains an entry from the History, the edit buffer
\* becomes that entry's text (the empty text when Down leaves the newest entry)
\* and the cursor is at the end of the buffer; when the History returns nothing
\* (Up with no entries, Down at a fresh position) buffer and cursor are as
\* before.
C30_RecallReplacesBuffer ==
    [][(last'.op \in {"Up", "Down"} /\ ~panicked')
        => LET nothing == IF last'.op = "Up" THEN entries = <<>>
                          ELSE current_position = None
           IN IF nothing
              THEN /\ line' = line
                   /\ line_cursor_grapheme' = line_cursor_grapheme
              ELSE /\ line' = (IF current_position' = None THEN <<>>
                               ELSE entries[current_position'[1] + 1])
                   /\ line_cursor_grapheme' = GCount(line')]_vars

C30_EntryRecalled ==
    /\ last.op = "Up" /\ line = <<"a", "m">> /\ line_cursor_grapheme = 1
    /\ current_position = Some(0) /\ term # <<>>

\* the lines of a list that are neither empty nor equal to the line kept
\* before them, in the order of the list
RECURSIVE Compact(_)
Compact(ls) ==
    IF ls = <<>> THEN <<>>
    ELSE LET rest == Compact(Take(ls, Len(ls) - 1))
             l == ls[Len(ls)]
         IN IF l = <<>> \/ Back(rest) = Some(l) THEN rest ELSE Append(rest, l)

\* the cap last elements of a sequence, in their order
Newest(s, cap) == Drop(s, Len(s) - Min(Len(s), cap))

\* C31: set_entries(list) leaves what add_entry of each element of the list, in
\* order, leaves of an empty History with the same max_size: the non-empty
\* lines without the repeats of the line before them, of these the max_size
\* newest, oldest first, the position fresh and max_size as it was; and
\* get_entries returns the stored entries from oldest to newest and changes
\* nothing
C31_SetEntriesAddsEach ==
    [][/\ last'.op = "set_entries"
          => /\ entries' = Newest(Compact(last'.line), max_size)
             /\ current_position' = None
             /\ max_size' = max_size
       /\ last'.op = "get_entries"
          => /\ last'.line = entries
             /\ UNCHANGED <<entries, max_size, current_position>>]_vars

\* set_entries has been given two different lines, of which a capacity of one
\* keeps the newer only
C31_ListTruncatedToNewest ==
    /\ last.op = "set_entries" /\ Len(last.line) = 2
    /\ last.line[1] # <<>> /\ last.line[2] # <<>> /\ last.line[1] # last.line[2]
    /\ max_size = 1 /\ entries = <<last.line[2]>>
    /\ current_position = None

\* C32: in every reachable LineState, after construction and after any Resize
\* event, the stored terminal width is at least 1, so the division and the
\* remainder by the width in line_height and move_from_beginning never have a
\* zero divisor
C32_WidthAtLeastOne == term_size[1] >= 1

\* C33: in every reachable History state a navigation position that is not
\* fresh is an index into the stored entries (position < number of entries, so
\* the entries are not empty): search_next and search_previous never index out
\* of range and never take length minus one of an empty history, whatever
\* add_entry, set_max_size, set_entries, reset_position and search calls came
\* before
C33_PositionIsAnIndex ==
    current_position # None
        => /\ current_position[1] >= 0
           /\ current_position[1] < Len(entries)
           /\ entries # <<>>

\* a search_next directly after set_max_size(1) truncated the History stands
\* on the one entry that is left
C33_PositionAfterTruncation ==
    /\ last.op = "search_next" /\ last.n = 2
    /\ current_position = Some(0) /\ Len(entries) = 1

\* C34: Ctrl-D returns Eof whatever the edit buffer holds and leaves the edit
\* buffer, the cursor grapheme index, the cursor column and the History as they
\* were, and the readline() call that follows the Eof starts from that buffer,
\* cursor and History: it continues editing the same text
C34_EofKeepsEditState ==
    [][/\ (pc = "reading" /\ arm' = "event" /\ last'.op = "CtrlD")
          => /\ ret' = Some(Eof) /\ returned' = Some(Eof) /\ pc' = "ready"
             /\ UNCHANGED <<line, line_cursor_grapheme, current_column>>
             /\ UNCHANGED <<entries, max_size, current_position>>
       /\ (pc = "ready" /\ returned = Some(Eof) /\ arm' = "call")
          => /\ pc' = "reading"
             /\ UNCHANGED <<line, line_cursor_grapheme, current_column>>
             /\ UNCHANGED <<entries, max_size, current_position>>]_vars

\* readline() has been called again after a Ctrl-D on a typed character, and
\* the character is still in the edit buffer with the cursor after it
C34_CallAfterEof ==
    /\ pc = "reading" /\ arm = "call" /\ resumed /\ last.op = "CtrlD"
    /\ line = <<"a">> /\ line_cursor_grapheme = 1

=============================================================================
